---- MODULE Spec2Model ----
(***************************************************************************)
(* Model of springleo/new-agent: client.py (main and the __main__ block),  *)
(* mathserver.py (add, multiply) and weather.py (get_weather).             *)
(*                                                                         *)
(* main() is a straight-line coroutine with four awaits, each wrapped in   *)
(* asyncio.wait_for: the catalog fetch client.get_tools() and three        *)
(* agent.ainvoke() calls.  The state is main's position, the values it     *)
(* holds (tools, agent), the clock of the pending wait_for, the position   *)
(* of the ReAct agent inside a pending ainvoke, and the environment the    *)
(* awaits talk to: the three configured servers.                           *)
(***************************************************************************)
EXTENDS Integers, Sequences, FiniteSets, TLC

VARIABLES
    status,        \* environment: each configured server is live, unreachable or hung
    advertised,    \* environment: the tool names each server advertises right now
    groqKey,       \* environment: GROQ_API_KEY is set (client.py 51-53)
    pc,            \* position of main()
    taskIdx,       \* which of the three invocations main() is at (0: none yet)
    elapsed,       \* seconds since the pending asyncio.wait_for started
    tools,         \* main's local `tools` (client.py 59)
    agent,         \* main's local `agent` (client.py 72)
    phase,         \* position of the ReAct agent inside the pending ainvoke
    call,          \* the tool call in flight inside the pending ainvoke
    lastResult,    \* what the last tool call handed back to the decision-maker
    invoked,       \* the invocations main() has started, in order
    outcomes,      \* the invocations that ended, with the branch that ended them
    fetchOutcome,  \* the branch of the try at client.py 58-66 that was taken
    agentOutcome,  \* the branch of the try at client.py 70-76 that was taken
    usableAtFetch, \* the servers that were live when the fetch ended
    log,           \* the lines written by log()
    exitStatus,    \* exit status of the process (-1 while it runs)
    session        \* the calls served by the math server, with their results

vars == <<status, advertised, groqKey, pc, taskIdx, elapsed, tools, agent,
          phase, call, lastResult, invoked, outcomes, fetchOutcome,
          agentOutcome, usableAtFetch, log, exitStatus, session>>

envVars == <<status, advertised, groqKey>>
loopVars == <<phase, call, lastResult>>

-----------------------------------------------------------------------------
(* Configuration: client.py 21-48 *)

\* the configured servers, in the order of the dict literal
Servers == <<"math", "weather", "github">>
ServerSet == {Servers[i] : i \in DOMAIN Servers}

Status == {"live", "unreachable", "hung"}

\* mathserver.py registers add and multiply, weather.py registers get_weather
MathTools == {"add", "multiply"}
WeatherTools == {"get_weather"}
\* the github server is an external binary started with --dynamic-toolsets:
\* what it advertises is an input.  list_issues stands for the configured
\* toolsets; a dynamic toolset may be enabled or disabled at run time, and the
\* names of its tools are not under this repository's control: the one here
\* carries a name the math server uses too.
GithubBaseTools == {"list_issues"}
GithubDynamicTools == {"add"}

\* a fixed listing order of tool names inside one server's answer
ToolOrder == <<"add", "multiply", "get_weather", "list_issues">>

\* the three invocations of main(), in program order, and their deadlines
Tasks == <<"math", "weather", "github">>
FetchDeadline == 10
MathDeadline == 15
WeatherDeadline == 20
GithubDeadline == 15
TaskDeadline == <<MathDeadline, WeatherDeadline, GithubDeadline>>

\* the clock is cut off here; above every deadline
MaxClock == 22
\* the math server is observed for this many calls
MaxCalls == 2
\* an earlier result is passed on as an operand up to this magnitude
MaxOperand == 100
\* arguments the decision-maker passes to the math tools
MathArgs == {-3, 0, 4, 5, 20}

NoAgent == [created |-> FALSE, tools |-> <<>>]
NoCall == [server |-> "none", name |-> "none"]

-----------------------------------------------------------------------------
(* Helpers *)

RECURSIVE Gcd(_, _)
Gcd(a, b) == IF b = 0 THEN a ELSE Gcd(b, a % b)

\* the clock advances in the largest step that lands on every deadline
Quantum == Gcd(Gcd(FetchDeadline, MathDeadline), Gcd(WeatherDeadline, GithubDeadline))

\* a plain await in place of asyncio.wait_for: no deadline ever expires
ExpiredNever(e, d) == FALSE

\* asyncio.wait_for(aw, timeout=d): the awaitable is abandoned once d seconds passed
Expired(e, d) == e >= d

\* the fetch awaited with the weather invocation's timeout
CurrentDeadlineSwapped == IF pc = "fetch" THEN WeatherDeadline ELSE TaskDeadline[taskIdx]

\* the timeout= argument of the pending wait_for (client.py 59, 90, 110, 130)
CurrentDeadline == IF pc = "fetch" THEN FetchDeadline ELSE TaskDeadline[taskIdx]

\* one server's answer to a catalog query: its advertised names, as tools
ServerTools(s, adv) ==
    LET names == SelectSeq(ToolOrder, LAMBDA n : n \in adv[s])
    IN  [i \in DOMAIN names |-> [server |-> s, name |-> names[i]]]

\* client.get_tools(): the flat list of every server's tools, server by server
GetTools(adv) ==
    ServerTools(Servers[1], adv) \o ServerTools(Servers[2], adv) \o ServerTools(Servers[3], adv)

\* how the await of client.get_tools() can end, given the servers' state: all
\* servers are queried together and the first failure is raised to the caller
GetToolsOutcome(st) ==
    IF \E s \in ServerSet : st[s] = "unreachable" THEN "error"
    ELSE IF \E s \in ServerSet : st[s] = "hung" THEN "pending"
    ELSE "ok"

\* how a tool call routed to its server ends
CallOutcome(c, st, adv) ==
    IF st[c.server] = "hung" THEN "pending"
    ELSE IF st[c.server] = "unreachable" THEN "transport_error"
    ELSE IF c.name \notin adv[c.server] THEN "tool_error"
    ELSE "success"

Entries(seq) == {seq[i] : i \in DOMAIN seq}

Say(kind, subject) == Append(log, <<kind, subject>>)

-----------------------------------------------------------------------------
(* mathserver.py *)

add(a, b) == a + b

\* multiply written as a copy of add
multiplyAsAdd(a, b) == a + b

multiply(a, b) == a * b

-----------------------------------------------------------------------------
(* Initial state: main() has not started; the environment is arbitrary *)

Init ==
    /\ status \in [ServerSet -> Status]
    /\ \E dyn \in SUBSET GithubDynamicTools :
         advertised = [s \in ServerSet |->
                         IF s = "math" THEN MathTools
                         ELSE IF s = "weather" THEN WeatherTools
                         ELSE GithubBaseTools \cup dyn]
    /\ groqKey \in BOOLEAN
    /\ pc = "start"
    /\ taskIdx = 0
    /\ elapsed = 0
    /\ tools = <<>>
    /\ agent = NoAgent
    /\ phase = "Idle"
    /\ call = NoCall
    /\ lastResult = "none"
    /\ invoked = <<>>
    /\ outcomes = <<>>
    /\ fetchOutcome = "none"
    /\ agentOutcome = "none"
    /\ usableAtFetch = {}
    /\ log = <<>>
    /\ exitStatus = -1
    /\ session = <<>>

-----------------------------------------------------------------------------
(* The environment *)

\* a server goes down, stops answering, or comes back while main() awaits
ServerChanges ==
    /\ pc \in {"fetch", "task"}
    /\ \E s \in ServerSet, st \in Status :
         /\ st # status[s]
         /\ status' = [status EXCEPT ![s] = st]
    /\ UNCHANGED <<advertised, groqKey, pc, taskIdx, elapsed, tools, agent,
                   phase, call, lastResult, invoked, outcomes, fetchOutcome,
                   agentOutcome, usableAtFetch, log, exitStatus, session>>

\* the github server enables or disables a dynamic toolset (client.py 39)
ToolsetChanges ==
    /\ pc \in {"fetch", "task"}
    /\ \E n \in GithubDynamicTools :
         advertised' = [advertised EXCEPT !["github"] =
                          IF n \in @ THEN @ \ {n} ELSE @ \cup {n}]
    /\ UNCHANGED <<status, groqKey, pc, taskIdx, elapsed, tools, agent,
                   phase, call, lastResult, invoked, outcomes, fetchOutcome,
                   agentOutcome, usableAtFetch, log, exitStatus, session>>

\* a second passes (in steps of Quantum) while a wait_for is pending
Tick ==
    /\ pc \in {"fetch", "task"}
    /\ ~Expired(elapsed, CurrentDeadline)
    /\ elapsed + Quantum <= MaxClock
    /\ elapsed' = elapsed + Quantum
    /\ UNCHANGED <<envVars, pc, taskIdx, tools, agent, loopVars, invoked,
                   outcomes, fetchOutcome, agentOutcome, usableAtFetch, log,
                   exitStatus, session>>

-----------------------------------------------------------------------------
(* main(): client.py 18-76 *)

\* client.py 19-59: construct the client, check the key, start the fetch
Start ==
    /\ pc = "start"
    /\ log' = log \o <<<<"initializing", "client">>>>
                  \o (IF groqKey THEN <<>> ELSE <<<<"warning", "GROQ_API_KEY">>>>)
                  \o <<<<"fetching", "tools">>>>
    /\ pc' = "fetch"
    /\ elapsed' = 0
    /\ UNCHANGED <<envVars, taskIdx, tools, agent, loopVars, invoked, outcomes,
                   fetchOutcome, agentOutcome, usableAtFetch, exitStatus, session>>

Live == {s \in ServerSet : status[s] = "live"}

\* client.py 59-60: get_tools() returned before the deadline
FetchReturns ==
    /\ pc = "fetch"
    /\ ~Expired(elapsed, CurrentDeadline)
    /\ GetToolsOutcome(status) = "ok"
    /\ tools' = GetTools(advertised)
    /\ fetchOutcome' = "ok"
    /\ usableAtFetch' = Live
    /\ log' = Say("tools_loaded", "tools")
    /\ pc' = "agent"
    /\ UNCHANGED <<envVars, taskIdx, elapsed, agent, loopVars, invoked, outcomes,
                   agentOutcome, exitStatus, session>>

\* client.py 61-63: the deadline passed; log and return
FetchTimesOut ==
    /\ pc = "fetch"
    /\ Expired(elapsed, CurrentDeadline)
    /\ fetchOutcome' = "timeout"
    /\ usableAtFetch' = Live
    /\ log' = Say("fetch_timeout", "tools")
    /\ pc' = "returned"
    /\ UNCHANGED <<envVars, taskIdx, elapsed, tools, agent, loopVars, invoked,
                   outcomes, agentOutcome, exitStatus, session>>

\* the handler at client.py 64-66 without its return: main() goes on
FetchRaisesFallsThrough ==
    /\ pc = "fetch"
    /\ ~Expired(elapsed, CurrentDeadline)
    /\ GetToolsOutcome(status) = "error"
    /\ fetchOutcome' = "error"
    /\ usableAtFetch' = Live
    /\ log' = Say("fetch_failed", "tools")
    /\ pc' = "agent"
    /\ UNCHANGED <<envVars, taskIdx, elapsed, tools, agent, loopVars, invoked,
                   outcomes, agentOutcome, exitStatus, session>>

\* client.py 64-66: get_tools() raised; log and return
FetchRaises ==
    /\ pc = "fetch"
    /\ ~Expired(elapsed, CurrentDeadline)
    /\ GetToolsOutcome(status) = "error"
    /\ fetchOutcome' = "error"
    /\ usableAtFetch' = Live
    /\ log' = Say("fetch_failed", "tools")
    /\ pc' = "returned"
    /\ UNCHANGED <<envVars, taskIdx, elapsed, tools, agent, loopVars, invoked,
                   outcomes, agentOutcome, exitStatus, session>>

\* client.py 70-73: the model and the agent are built over `tools`
AgentCreated ==
    /\ pc = "agent"
    /\ agent' = [created |-> TRUE, tools |-> tools]
    /\ agentOutcome' = "ok"
    /\ log' = Say("agent_ready", "agent")
    /\ pc' = "invoke"
    /\ taskIdx' = 1
    /\ UNCHANGED <<envVars, elapsed, tools, loopVars, invoked, outcomes,
                   fetchOutcome, usableAtFetch, exitStatus, session>>

\* client.py 74-76: building the model or the agent raised; log and return
AgentCreationRaises ==
    /\ pc = "agent"
    /\ agentOutcome' = "error"
    /\ log' = Say("agent_failed", "agent")
    /\ pc' = "returned"
    /\ UNCHANGED <<envVars, taskIdx, elapsed, tools, agent, loopVars, invoked,
                   outcomes, fetchOutcome, usableAtFetch, exitStatus, session>>

-----------------------------------------------------------------------------
(* main(): the three invocations, client.py 78-136, and the end, 169-177 *)

\* client.py 81-83, 101-103, 121-123: log, then await agent.ainvoke under wait_for
InvokeTask ==
    /\ pc = "invoke"
    /\ log' = Say("invoking", Tasks[taskIdx])
    /\ invoked' = Append(invoked, Tasks[taskIdx])
    /\ elapsed' = 0
    /\ phase' = "AwaitingDecision"
    /\ call' = NoCall
    /\ lastResult' = "none"
    /\ pc' = "task"
    /\ UNCHANGED <<envVars, taskIdx, tools, agent, outcomes, fetchOutcome,
                   agentOutcome, usableAtFetch, exitStatus, session>>

\* inside ainvoke: the decision-maker asks for one of the tools the agent was built with
AgentCallsTool ==
    /\ pc = "task"
    /\ ~Expired(elapsed, CurrentDeadline)
    /\ phase = "AwaitingDecision"
    /\ \E t \in Entries(agent.tools) : call' = t
    /\ phase' = "AwaitingToolResult"
    /\ lastResult' = "none"
    /\ UNCHANGED <<envVars, pc, taskIdx, elapsed, tools, agent, invoked,
                   outcomes, fetchOutcome, agentOutcome, usableAtFetch, log,
                   exitStatus, session>>

\* inside ainvoke: the server answered (a result or an error); the answer goes
\* back to the decision-maker.  No deadline is set on the call itself
\* (client.py 24-46 configure none): a server that never answers leaves it pending.
ToolAnswers ==
    /\ pc = "task"
    /\ ~Expired(elapsed, CurrentDeadline)
    /\ phase = "AwaitingToolResult"
    /\ CallOutcome(call, status, advertised) # "pending"
    /\ lastResult' = CallOutcome(call, status, advertised)
    /\ phase' = "AwaitingDecision"
    /\ call' = NoCall
    /\ UNCHANGED <<envVars, pc, taskIdx, elapsed, tools, agent, invoked, outcomes,
                   fetchOutcome, agentOutcome, usableAtFetch, log, exitStatus, session>>

\* what main() does after the try statement of invocation i, whichever branch
\* ran: the next invocation, or after the last one log Done (client.py 169)
Proceed(i, kind) ==
    IF i < Len(Tasks)
    THEN /\ pc' = "invoke"
         /\ taskIdx' = i + 1
         /\ log' = Say(kind, Tasks[i])
    ELSE /\ pc' = "returned"
         /\ taskIdx' = i
         /\ log' = Say(kind, Tasks[i]) \o <<<<"done", "main">>>>

EndTask(outcome) ==
    /\ outcomes' = Append(outcomes, [task |-> Tasks[taskIdx], outcome |-> outcome])
    /\ phase' = "Idle"
    /\ call' = NoCall
    /\ lastResult' = "none"
    /\ UNCHANGED <<envVars, elapsed, tools, agent, invoked, fetchOutcome,
                   agentOutcome, usableAtFetch, exitStatus, session>>

\* client.py 92, 112, 132: ainvoke returned the final answer; it is logged
TaskReturns ==
    /\ pc = "task"
    /\ ~Expired(elapsed, CurrentDeadline)
    /\ phase = "AwaitingDecision"
    /\ Proceed(taskIdx, "result")
    /\ EndTask("completed")

\* the timeout handler of an invocation ending main(), as the fetch's does
TaskTimesOutReturns ==
    /\ pc = "task"
    /\ Expired(elapsed, CurrentDeadline)
    /\ pc' = "returned"
    /\ taskIdx' = taskIdx
    /\ log' = Say("timeout", Tasks[taskIdx])
    /\ EndTask("timed_out")

\* client.py 93-94, 113-114, 133-134: the deadline passed; it is logged
TaskTimesOut ==
    /\ pc = "task"
    /\ Expired(elapsed, CurrentDeadline)
    /\ Proceed(taskIdx, "timeout")
    /\ EndTask("timed_out")

\* client.py 95-96, 115-116, 135-136: ainvoke (the decision-maker) raised; it is logged
TaskRaises ==
    /\ pc = "task"
    /\ ~Expired(elapsed, CurrentDeadline)
    /\ phase = "AwaitingDecision"
    /\ Proceed(taskIdx, "failed")
    /\ EndTask("failed")

\* client.py 173-177: asyncio.run(main()) returned and the script ends;
\* no branch of main() raises or calls sys.exit
Exit ==
    /\ pc = "returned"
    /\ exitStatus' = 0
    /\ pc' = "exited"
    /\ UNCHANGED <<envVars, taskIdx, elapsed, tools, agent, loopVars, invoked,
                   outcomes, fetchOutcome, agentOutcome, usableAtFetch, log, session>>

Next ==
    \/ ServerChanges
    \/ ToolsetChanges
    \/ Tick
    \/ Start
    \/ FetchReturns
    \/ FetchTimesOut
    \/ FetchRaises
    \/ AgentCreated
    \/ AgentCreationRaises
    \/ InvokeTask
    \/ AgentCallsTool
    \/ ToolAnswers
    \/ TaskReturns
    \/ TaskTimesOut
    \/ TaskRaises
    \/ Exit

Spec == Init /\ [][Next]_vars

\* the event loop runs a ready coroutine and fires a due timer; time passes
FairSpec ==
    /\ Spec
    /\ WF_vars(Tick)
    /\ WF_vars(Start)
    /\ WF_vars(FetchTimesOut)
    /\ WF_vars(AgentCreated \/ AgentCreationRaises)
    /\ WF_vars(InvokeTask)
    /\ WF_vars(TaskTimesOut)
    /\ WF_vars(Exit)

TypeOK ==
    /\ status \in [ServerSet -> Status]
    /\ pc \in {"start", "fetch", "agent", "invoke", "task", "returned", "exited"}
    /\ taskIdx \in 0..Len(Tasks)
    /\ elapsed \in 0..MaxClock
    /\ phase \in {"Idle", "AwaitingDecision", "AwaitingToolResult"}
    /\ lastResult \in {"none", "success", "transport_error", "tool_error"}
    /\ fetchOutcome \in {"none", "ok", "timeout", "error"}
    /\ agentOutcome \in {"none", "ok", "error"}
    /\ exitStatus \in {-1, 0}

-----------------------------------------------------------------------------
(* The math server on its own: mathserver.py serves a sequence of calls *)

\* what the decision-maker can pass: the task's numbers and the earlier
\* results of magnitude up to MaxOperand
Operands ==
    MathArgs \cup {r \in {session[i].result : i \in DOMAIN session} :
                      -MaxOperand <= r /\ r <= MaxOperand}

\* mathserver.py 6-11
CallAdd(a, b) ==
    /\ Len(session) < MaxCalls
    /\ session' = Append(session, [tool |-> "add", a |-> a, b |-> b, result |-> add(a, b)])
    /\ UNCHANGED <<envVars, pc, taskIdx, elapsed, tools, agent, loopVars, invoked,
                   outcomes, fetchOutcome, agentOutcome, usableAtFetch, log, exitStatus>>

\* mathserver.py 13-18
CallMultiply(a, b) ==
    /\ Len(session) < MaxCalls
    /\ session' = Append(session, [tool |-> "multiply", a |-> a, b |-> b,
                                   result |-> multiply(a, b)])
    /\ UNCHANGED <<envVars, pc, taskIdx, elapsed, tools, agent, loopVars, invoked,
                   outcomes, fetchOutcome, agentOutcome, usableAtFetch, log, exitStatus>>

MathInit ==
    /\ Init
    /\ \A s \in ServerSet : status[s] = "live"
    /\ advertised["github"] = GithubBaseTools
    /\ groqKey

MathNext ==
    \/ \E a \in Operands, b \in Operands : CallAdd(a, b)
    \/ \E a \in Operands, b \in Operands : CallMultiply(a, b)

MathSpec == MathInit /\ [][MathNext]_vars

-----------------------------------------------------------------------------
(* Vocabulary of the properties *)

Completed == <<"done", "main">> \in Entries(log)

IsPrefix(p, q) == Len(p) <= Len(q) /\ \A i \in DOMAIN p : p[i] = q[i]

TaskOutcomes == {"completed", "timed_out", "failed"}

\* the catalog a degraded fetch is expected to yield: the live servers' tools
ReachableCatalog == UNION {Entries(ServerTools(s, advertised)) : s \in Live}

-----------------------------------------------------------------------------
(* Properties *)

\* C1: when the weather server is unreachable as the catalog fetch ends, no
\* server is unresponsive and at least one server is live, the fetch yields
\* exactly the reachable servers' tools and main() goes on to create the agent.
C1_UnreachableServerDegradesOnly ==
    [][(/\ pc = "fetch"
        /\ pc' # "fetch"
        /\ status["weather"] = "unreachable"
        /\ \A s \in ServerSet : status[s] # "hung"
        /\ Live # {})
       => (/\ pc' = "agent"
           /\ fetchOutcome' = "ok"
           /\ Entries(tools') = ReachableCatalog)]_vars

\* C2: a tool call in flight inside a task ends only by handing its outcome
\* (a timeout and a transport error included) back to the decision-maker, with
\* the task still in its decide/call loop; it never ends the task.
C2_ToolFailureStaysInLoop ==
    [][(/\ pc = "task"
        /\ phase = "AwaitingToolResult"
        /\ phase' # "AwaitingToolResult")
       => (/\ pc' = "task"
           /\ taskIdx' = taskIdx
           /\ phase' = "AwaitingDecision"
           /\ lastResult' \in {"success", "tool_error", "transport_error", "timeout"}
           /\ Len(outcomes') = Len(outcomes))]_vars

\* C3: the pending catalog fetch is never awaited for more than 10 seconds,
\* whatever the servers do, and once 10 seconds have passed the only way out
\* of the await is the timeout branch, after which main() has returned.
C3_FetchBoundedByDeadline ==
    /\ [](pc = "fetch" => elapsed <= 10)
    /\ [][(pc = "fetch" /\ elapsed >= 10 /\ pc' # "fetch")
          => (fetchOutcome' = "timeout" /\ pc' = "returned" /\ tools' = <<>>)]_vars

\* C3 witness: all three servers unresponsive, the fetch was given up at 10 seconds
C3_Witness ==
    /\ fetchOutcome = "timeout"
    /\ elapsed = 10
    /\ \A s \in ServerSet : status[s] = "hung"
    /\ pc = "returned"

\* C4: every run of main() ends; an invocation in flight is never older than
\* its deadline (15, 20, 15 seconds); every invocation that was started and
\* has ended has exactly one outcome, one of completed, timed out, failed; and
\* when main() has returned every started invocation has ended.
C4_RunTerminatesTasksBounded ==
    /\ [](pc = "task" => elapsed <= <<15, 20, 15>>[taskIdx])
    /\ [](/\ Len(outcomes) <= Len(invoked)
          /\ \A i \in DOMAIN outcomes :
                /\ outcomes[i].task = invoked[i]
                /\ outcomes[i].outcome \in TaskOutcomes
                /\ \A j \in DOMAIN outcomes : outcomes[j].task = outcomes[i].task => j = i
          /\ (pc \in {"returned", "exited"} => Len(outcomes) = Len(invoked)))
    /\ <>(pc = "exited")

\* C4 witness: a finished run whose three invocations ended in the three ways
C4_Witness ==
    /\ pc = "exited"
    /\ Len(outcomes) = 3
    /\ outcomes[1].outcome = "timed_out"
    /\ outcomes[2].outcome = "completed"
    /\ outcomes[3].outcome = "failed"

\* C5: the process exits with status 0 when the run completed, and with a
\* non-zero status when the catalog fetch failed with no usable server.
C5_ExitStatusTellsInitFailure ==
    pc = "exited" =>
        /\ (Completed => exitStatus = 0)
        /\ (fetchOutcome \in {"timeout", "error"} /\ usableAtFetch = {} => exitStatus # 0)

\* C6: in the catalog the agent is built with, a tool name has one owning server.
C6_OneOwnerPerName ==
    agent.created =>
        \A i \in DOMAIN agent.tools, j \in DOMAIN agent.tools :
            agent.tools[i].name = agent.tools[j].name
                => agent.tools[i].server = agent.tools[j].server

\* C7: every invocation starts out with the catalog the servers advertise at
\* that time, not with the one fetched at startup.
C7_TaskSeesCurrentCatalog ==
    [][(pc = "invoke" /\ pc' = "task")
       => Entries(agent'.tools) = Entries(GetTools(advertised'))]_vars

\* C8: every add call served returns a+b and every multiply call a*b, and
\* multiply(4,5) followed by add(that product, 20) returns 40.
C8_MathToolsCompute ==
    /\ \A i \in DOMAIN session :
          /\ session[i].tool = "add" => session[i].result = session[i].a + session[i].b
          /\ session[i].tool = "multiply" => session[i].result = session[i].a * session[i].b
    /\ (/\ Len(session) >= 2
        /\ session[1].tool = "multiply" /\ session[1].a = 4 /\ session[1].b = 5
        /\ session[2].tool = "add" /\ session[2].a = session[1].result /\ session[2].b = 20)
       => session[2].result = 40

\* C8 witness: the task's two calls were served, with a negative operand nearby
C8_Witness ==
    /\ Len(session) = 2
    /\ session[1] = [tool |-> "multiply", a |-> 4, b |-> 5, result |-> 20]
    /\ session[2] = [tool |-> "add", a |-> 20, b |-> 20, result |-> 40]

C10_NoTaskWithoutFetchAndAgent ==
    /\ (agent.created \/ pc = "agent" \/ agentOutcome # "none") => fetchOutcome = "ok"
    /\ (invoked # <<>> \/ pc \in {"invoke", "task"})
          => (fetchOutcome = "ok" /\ agentOutcome = "ok" /\ agent.created)
    /\ (fetchOutcome \in {"timeout", "error"} \/ agentOutcome = "error")
          => (/\ pc \in {"returned", "exited"}
              /\ invoked = <<>>
              /\ outcomes = <<>>
              /\ ~Completed)

\* C10 witness: the agent could not be created and the process ended without any invocation
C10_Witness ==
    /\ pc = "exited"
    /\ fetchOutcome = "ok"
    /\ agentOutcome = "error"
    /\ invoked = <<>>

====
